---- MODULE Spec2Model ----
(***************************************************************************)
(* Model of x/wasm/keeper/handler_plugin_encoders.go: the encoder registry *)
(* (MessageEncoders, DefaultEncoders, Merge), the dispatcher (Encode), the *)
(* default per-kind encoders and the coin conversion helpers.              *)
(*                                                                         *)
(* Go strings that the code parses or orders (coin amounts, denominations, *)
(* vote weights) are sequences of one-character strings, so that parsing   *)
(* and ordering are computed.  Strings the code only copies (addresses,    *)
(* channel ids, labels) are TLA+ strings.                                  *)
(***************************************************************************)
EXTENDS Integers, Sequences, FiniteSets, TLC

VARIABLES
    op,          \* the call the behaviour has made: "init" before any call
    base,        \* receiver of the last Merge, as the caller holds it after the call
    overrides,   \* argument of the last Merge (NilEncoders for a nil pointer)
    encoders,    \* the registry in use (DefaultEncoders, or what Merge returned)
    msg,         \* the CosmosMsg given to Encode
    result,      \* what Encode returned: [msgs, err]
    invoked,     \* the encoder functions Encode called, in order
    trace,       \* calls made on the context's collaborators, in order
    gasStart,    \* ctx.GasMeter(): gas consumed when the behaviour starts
    gasConsumed, \* ctx.GasMeter(): gas consumed so far
    coinsArg,    \* argument of the coin conversion
    coinsRes     \* what the coin conversion returned: [coins, err]

vars == <<op, base, overrides, encoders, msg, result, invoked, trace,
          gasStart, gasConsumed, coinsArg, coinsRes>>

(***************************************************************************)
(* Bounds of the model.                                                    *)
(***************************************************************************)
MaxCoins == 3

(***************************************************************************)
(* Errors.  kind is the root error (what errors.Is matches), wrap the      *)
(* descriptions added by errorsmod.Wrap, innermost first; index is the     *)
(* number formatted into the description by Wrapf (0 when there is none).  *)
(***************************************************************************)
NoError == [kind |-> "nil", wrap |-> <<>>, index |-> 0]

NewError(kind, desc) == [kind |-> kind, wrap |-> <<desc>>, index |-> 0]

Wrap(err, desc) == [err EXCEPT !.wrap = Append(@, desc)]

Wrapf(err, desc, n) == [err EXCEPT !.wrap = Append(@, desc), !.index = n]

(***************************************************************************)
(* Characters and their byte order.                                        *)
(***************************************************************************)
Ascii(c) ==
    CASE c = "-" -> 45
      [] c = "." -> 46
      [] c = "0" -> 48
      [] c = "1" -> 49
      [] c = "2" -> 50
      [] c = "3" -> 51
      [] c = "5" -> 53
      [] c = "7" -> 55
      [] c = "a" -> 97
      [] c = "b" -> 98
      [] c = "f" -> 102
      [] c = "o" -> 111
      [] c = "r" -> 114

IsDigit(c) == Ascii(c) >= 48 /\ Ascii(c) <= 57

IsLetter(c) == Ascii(c) >= 97 /\ Ascii(c) <= 122

DigitVal(c) == Ascii(c) - 48

\* Go's < on strings: bytewise lexicographic.
RECURSIVE StrLess(_, _)
StrLess(s, t) ==
    IF t = <<>> THEN FALSE
    ELSE IF s = <<>> THEN TRUE
    ELSE IF Ascii(Head(s)) # Ascii(Head(t)) THEN Ascii(Head(s)) < Ascii(Head(t))
    ELSE StrLess(Tail(s), Tail(t))

(***************************************************************************)
(* sdkmath.NewIntFromString: big.Int.SetString(s, 0).  An optional sign,   *)
(* then at least one digit; base 0 reads a leading "0" followed by more    *)
(* digits as octal.  The whole string must be consumed.                    *)
(***************************************************************************)
RECURSIVE ScanDigits(_, _, _)
ScanDigits(s, radix, acc) ==
    IF s = <<>> THEN [ok |-> TRUE, value |-> acc]
    ELSE IF IsDigit(Head(s)) /\ DigitVal(Head(s)) < radix
         THEN ScanDigits(Tail(s), radix, acc * radix + DigitVal(Head(s)))
         ELSE [ok |-> FALSE, value |-> 0]

ScanMagnitude(s) ==
    IF s = <<>> THEN [ok |-> FALSE, value |-> 0]
    ELSE IF Len(s) > 1 /\ Head(s) = "0" THEN ScanDigits(Tail(s), 8, 0)
    ELSE ScanDigits(s, 10, 0)

NewIntFromString(s) ==
    IF s # <<>> /\ Head(s) = "-"
    THEN LET m == ScanMagnitude(Tail(s))
         IN  [ok |-> m.ok, value |-> 0 - m.value]
    ELSE ScanMagnitude(s)

(***************************************************************************)
(* sdk.ValidateDenom and sdk.Coin.Validate.                                *)
(***************************************************************************)
IsDenomChar(c) == IsLetter(c) \/ IsDigit(c) \/ c \in {"-", "."}

ValidateDenom(denom) ==
    IF /\ Len(denom) >= 3
       /\ Len(denom) <= 128
       /\ IsLetter(denom[1])
       /\ \A i \in 2..Len(denom) : IsDenomChar(denom[i])
    THEN NoError
    ELSE NewError("invalid denom", "")

CoinValidate(coin) ==
    IF ValidateDenom(coin.Denom) # NoError THEN ValidateDenom(coin.Denom)
    ELSE IF coin.Amount < 0 THEN NewError("negative coin amount", "")
    ELSE NoError

\* sdk.Coin{}: the zero value returned beside a parse error.
EmptyCoin == [Denom |-> <<>>, Amount |-> 0]

ConvertWasmCoinToSdkCoinUnvalidated(coin) ==
    LET amount == NewIntFromString(coin.Amount)
        r == [Denom |-> coin.Denom, Amount |-> amount.value]
    IN  IF ~amount.ok
        THEN [coin |-> EmptyCoin, err |-> NewError("ErrInvalidCoins", "amount+denom")]
        ELSE [coin |-> r, err |-> NoError]

ConvertWasmCoinToSdkCoin(coin) ==
    LET amount == NewIntFromString(coin.Amount)
        r == [Denom |-> coin.Denom, Amount |-> amount.value]
    IN  IF ~amount.ok
        THEN [coin |-> EmptyCoin, err |-> NewError("ErrInvalidCoins", "amount+denom")]
        ELSE [coin |-> r, err |-> CoinValidate(r)]

(***************************************************************************)
(* sdk.Coins: Sort orders by denomination; Add sums per denomination,      *)
(* leaves out the denominations whose sum is zero and sorts.               *)
(***************************************************************************)
RECURSIVE SortByDenom(_)
SortByDenom(cs) ==
    IF cs = {} THEN <<>>
    ELSE LET first == CHOOSE c \in cs : \A d \in cs : ~StrLess(d.Denom, c.Denom)
         IN  <<first>> \o SortByDenom(cs \ {first})

RECURSIVE SumDenom(_, _)
SumDenom(coins, denom) ==
    IF coins = <<>> THEN 0
    ELSE (IF Head(coins).Denom = denom THEN Head(coins).Amount ELSE 0)
         + SumDenom(Tail(coins), denom)

RECURSIVE InsertByDenom(_, _)
InsertByDenom(sorted, c) ==
    IF sorted = <<>> THEN <<c>>
    ELSE IF StrLess(c.Denom, Head(sorted).Denom) THEN <<c>> \o sorted
    ELSE <<Head(sorted)>> \o InsertByDenom(Tail(sorted), c)

RECURSIVE CoinsSort(_)
CoinsSort(coins) ==
    IF coins = <<>> THEN <<>>
    ELSE InsertByDenom(CoinsSort(SubSeq(coins, 1, Len(coins) - 1)), coins[Len(coins)])

CoinsAdd(coins, c) ==
    LET all == Append(coins, c)
        denoms == {all[i].Denom : i \in 1..Len(all)}
        combo == {[Denom |-> d, Amount |-> SumDenom(all, d)] : d \in denoms}
    IN  SortByDenom({x \in combo : x.Amount # 0})

RECURSIVE ConvertLoopAppends(_, _)
ConvertLoopAppends(coins, toSend) ==
    IF coins = <<>> THEN [coins |-> CoinsSort(toSend), err |-> NoError]
    ELSE LET c == ConvertWasmCoinToSdkCoin(Head(coins))
         IN  IF c.err # NoError
             THEN [coins |-> <<>>, err |-> c.err]
             ELSE ConvertLoopAppends(Tail(coins), Append(toSend, c.coin))

RECURSIVE ConvertLoop(_, _)
ConvertLoop(coins, toSend) ==
    IF coins = <<>> THEN [coins |-> CoinsSort(toSend), err |-> NoError]
    ELSE LET c == ConvertWasmCoinToSdkCoin(Head(coins))
         IN  IF c.err # NoError
             THEN [coins |-> <<>>, err |-> c.err]
             ELSE ConvertLoop(Tail(coins), CoinsAdd(toSend, c.coin))

ConvertWasmCoinsToSdkCoins(coins) == ConvertLoop(coins, <<>>)

(***************************************************************************)
(* Inputs of the coin conversion.                                          *)
(***************************************************************************)
DenomSamples == {<<"b", "a", "r">>, <<"f", "o", "o">>, <<"f", "o">>}

AmountSamples == {<<>>, <<"0">>, <<"1">>, <<"2">>, <<"-", "1">>, <<"a">>}

WasmCoins == [Denom : DenomSamples, Amount : AmountSamples]

SeqsUpTo(S, n) == UNION {[1..k -> S] : k \in 0..n}

NoCoinsResult == [coins |-> <<>>, err |-> NoError]

(***************************************************************************)
(* Pointers.  A Go pointer (or slice tested against nil) is a sequence of  *)
(* length 0 (nil) or 1 (the value pointed to).                             *)
(***************************************************************************)
Nil == <<>>

Ptr(v) == <<v>>

Opt(S) == {Nil} \cup {Ptr(v) : v \in S}

(***************************************************************************)
(* Collaborators outside the file: address formatting, the codec, the      *)
(* transfer port source and the gas meter.                                 *)
(***************************************************************************)
\* sdk.AccAddress.String(): the bech32 form of the address bytes.
AccAddressString(addr) == <<"bech32", addr>>

\* keeper.PortIDForContract: the port derived from the contract address.
PortIDForContract(addr) == <<"wasm.", AccAddressString(addr)>>

\* portSource.GetPort(ctx): the transfer port the chain is configured with.
GetPort == "transfer"

\* unpacker.UnpackAny: decodes the value of a registered type URL.
UnpackAny(any) ==
    IF any.TypeUrl \in {"/cosmos.bank.v1beta1.MsgSend", "/cosmos.authz.v1beta1.MsgExec"}
    THEN [ok |-> TRUE, msg |-> [type |-> "Unpacked", TypeUrl |-> any.TypeUrl, Value |-> any.Value]]
    ELSE [ok |-> FALSE, msg |-> [type |-> "nil", TypeUrl |-> "", Value |-> ""]]

\* codectypes.UnpackInterfaces: resolves the Any values nested in a message.
UnpackInterfaces(sdkMsg) == sdkMsg.TypeUrl # "/cosmos.authz.v1beta1.MsgExec"

\* storetypes.GasMeter.ConsumeGas: adds, then panics when the limit is passed.
GasLimit == 6

ConsumeGas(consumed, amount) ==
    [consumed |-> consumed + amount, panic |-> consumed + amount > GasLimit]

anyMsgGasCost == 700000

DefaultGasMultiplier == 140000

(***************************************************************************)
(* What an encoder returns: ([]sdk.Msg, error).                            *)
(***************************************************************************)
Ok(msgs) == [msgs |-> msgs, err |-> NoError]

Fail(err) == [msgs |-> <<>>, err |-> err]

(***************************************************************************)
(* EncodeBankMsg.                                                          *)
(***************************************************************************)
EncodeBankMsgNoEmptyCheck(sender, m) ==
    IF m.Send = Nil THEN Fail(NewError("ErrUnknownMsg", "unknown variant of Bank"))
    ELSE LET send == m.Send[1]
             toSend == ConvertWasmCoinsToSdkCoins(send.Amount)
         IN  IF toSend.err # NoError THEN Fail(toSend.err)
             ELSE Ok(<<[type |-> "MsgSend",
                        FromAddress |-> AccAddressString(sender),
                        ToAddress |-> send.ToAddress,
                        Amount |-> toSend.coins]>>)

EncodeBankMsg(sender, m) ==
    IF m.Send = Nil THEN Fail(NewError("ErrUnknownMsg", "unknown variant of Bank"))
    ELSE LET send == m.Send[1]
             toSend == ConvertWasmCoinsToSdkCoins(send.Amount)
         IN  IF Len(send.Amount) = 0 THEN Ok(<<>>)
             ELSE IF toSend.err # NoError THEN Fail(toSend.err)
             ELSE Ok(<<[type |-> "MsgSend",
                        FromAddress |-> AccAddressString(sender),
                        ToAddress |-> send.ToAddress,
                        Amount |-> toSend.coins]>>)

NoCustomMsg(sender, m) ==
    Fail(NewError("ErrUnknownMsg", "custom variant not supported"))

(***************************************************************************)
(* EncodeDistributionMsg.                                                  *)
(***************************************************************************)
EncodeDistributionMsgKeepsMsg(sender, m) ==
    IF m.SetWithdrawAddress # Nil
    THEN Ok(<<[type |-> "MsgSetWithdrawAddress",
               DelegatorAddress |-> AccAddressString(sender),
               WithdrawAddress |-> m.SetWithdrawAddress[1].Address]>>)
    ELSE IF m.WithdrawDelegatorReward # Nil
    THEN Ok(<<[type |-> "MsgWithdrawDelegatorReward",
               DelegatorAddress |-> AccAddressString(sender),
               ValidatorAddress |-> m.WithdrawDelegatorReward[1].Validator]>>)
    ELSE IF m.FundCommunityPool # Nil
    THEN LET amt == ConvertWasmCoinsToSdkCoins(m.FundCommunityPool[1].Amount)
         IN  [msgs |-> <<[type |-> "MsgFundCommunityPool",
                          Depositor |-> AccAddressString(sender),
                          Amount |-> amt.coins]>>,
              err |-> amt.err]
    ELSE Fail(NewError("ErrUnknownMsg", "unknown variant of Distribution"))

EncodeDistributionMsg(sender, m) ==
    IF m.SetWithdrawAddress # Nil
    THEN Ok(<<[type |-> "MsgSetWithdrawAddress",
               DelegatorAddress |-> AccAddressString(sender),
               WithdrawAddress |-> m.SetWithdrawAddress[1].Address]>>)
    ELSE IF m.WithdrawDelegatorReward # Nil
    THEN Ok(<<[type |-> "MsgWithdrawDelegatorReward",
               DelegatorAddress |-> AccAddressString(sender),
               ValidatorAddress |-> m.WithdrawDelegatorReward[1].Validator]>>)
    ELSE IF m.FundCommunityPool # Nil
    THEN LET amt == ConvertWasmCoinsToSdkCoins(m.FundCommunityPool[1].Amount)
         IN  IF amt.err # NoError THEN Fail(amt.err)
             ELSE Ok(<<[type |-> "MsgFundCommunityPool",
                        Depositor |-> AccAddressString(sender),
                        Amount |-> amt.coins]>>)
    ELSE Fail(NewError("ErrUnknownMsg", "unknown variant of Distribution"))

(***************************************************************************)
(* EncodeStakingMsg.                                                       *)
(***************************************************************************)
EncodeStakingMsg(sender, m) ==
    IF m.Delegate # Nil
    THEN LET coin == ConvertWasmCoinToSdkCoin(m.Delegate[1].Amount)
         IN  IF coin.err # NoError THEN Fail(coin.err)
             ELSE Ok(<<[type |-> "MsgDelegate",
                        DelegatorAddress |-> AccAddressString(sender),
                        ValidatorAddress |-> m.Delegate[1].Validator,
                        Coin |-> coin.coin]>>)
    ELSE IF m.Redelegate # Nil
    THEN LET coin == ConvertWasmCoinToSdkCoin(m.Redelegate[1].Amount)
         IN  IF coin.err # NoError THEN Fail(coin.err)
             ELSE Ok(<<[type |-> "MsgBeginRedelegate",
                        DelegatorAddress |-> AccAddressString(sender),
                        ValidatorSrcAddress |-> m.Redelegate[1].SrcValidator,
                        ValidatorDstAddress |-> m.Redelegate[1].DstValidator,
                        Coin |-> coin.coin]>>)
    ELSE IF m.Undelegate # Nil
    THEN LET coin == ConvertWasmCoinToSdkCoin(m.Undelegate[1].Amount)
         IN  IF coin.err # NoError THEN Fail(coin.err)
             ELSE Ok(<<[type |-> "MsgUndelegate",
                        DelegatorAddress |-> AccAddressString(sender),
                        ValidatorAddress |-> m.Undelegate[1].Validator,
                        Coin |-> coin.coin]>>)
    ELSE Fail(NewError("ErrUnknownMsg", "unknown variant of Staking"))

(***************************************************************************)
(* EncodeAnyMsg(unpacker).  Beside the result it yields the gas meter      *)
(* after the call and the calls made on the gas meter and the codec, in    *)
(* order.  A panic of ConsumeGas ends the call there.                      *)
(***************************************************************************)
AnyOutcome(res, gas, events) == [res |-> res, gas |-> gas, trace |-> events]

EncodeAnyMsgChargeAfterUnpack(gas, sender, m) ==
    LET codecAny == [TypeUrl |-> m.TypeURL, Value |-> m.Value]
        charged == ConsumeGas(gas, anyMsgGasCost \div DefaultGasMultiplier)
        unpacked == UnpackAny(codecAny)
    IN  IF ~unpacked.ok
        THEN AnyOutcome(Fail(NewError("ErrInvalidMsg", "Cannot unpack proto message with type URL")),
                        gas, <<"UnpackAny">>)
        ELSE IF charged.panic
        THEN AnyOutcome(Fail(NewError("panic", "out of gas")),
                        charged.consumed, <<"UnpackAny", "ConsumeGas">>)
        ELSE IF ~UnpackInterfaces(unpacked.msg)
        THEN AnyOutcome(Fail(NewError("ErrInvalidMsg", "UnpackInterfaces inside msg")),
                        charged.consumed, <<"UnpackAny", "ConsumeGas", "UnpackInterfaces">>)
        ELSE AnyOutcome(Ok(<<unpacked.msg>>),
                        charged.consumed, <<"UnpackAny", "ConsumeGas", "UnpackInterfaces">>)

EncodeAnyMsg(gas, sender, m) ==
    LET codecAny == [TypeUrl |-> m.TypeURL, Value |-> m.Value]
        charged == ConsumeGas(gas, anyMsgGasCost \div DefaultGasMultiplier)
        unpacked == UnpackAny(codecAny)
    IN  IF charged.panic
        THEN AnyOutcome(Fail(NewError("panic", "out of gas")),
                        charged.consumed, <<"ConsumeGas">>)
        ELSE IF ~unpacked.ok
        THEN AnyOutcome(Fail(NewError("ErrInvalidMsg", "Cannot unpack proto message with type URL")),
                        charged.consumed, <<"ConsumeGas", "UnpackAny">>)
        ELSE IF ~UnpackInterfaces(unpacked.msg)
        THEN AnyOutcome(Fail(NewError("ErrInvalidMsg", "UnpackInterfaces inside msg")),
                        charged.consumed, <<"ConsumeGas", "UnpackAny", "UnpackInterfaces">>)
        ELSE AnyOutcome(Ok(<<unpacked.msg>>),
                        charged.consumed, <<"ConsumeGas", "UnpackAny", "UnpackInterfaces">>)

(***************************************************************************)
(* EncodeWasmMsg.                                                          *)
(***************************************************************************)
EncodeWasmMsg(sender, m) ==
    IF m.Execute # Nil
    THEN LET coins == ConvertWasmCoinsToSdkCoins(m.Execute[1].Funds)
         IN  IF coins.err # NoError THEN Fail(coins.err)
             ELSE Ok(<<[type |-> "MsgExecuteContract",
                        Sender |-> AccAddressString(sender),
                        Contract |-> m.Execute[1].ContractAddr,
                        Msg |-> m.Execute[1].Msg,
                        Funds |-> coins.coins]>>)
    ELSE IF m.Instantiate # Nil
    THEN LET coins == ConvertWasmCoinsToSdkCoins(m.Instantiate[1].Funds)
         IN  IF coins.err # NoError THEN Fail(coins.err)
             ELSE Ok(<<[type |-> "MsgInstantiateContract",
                        Sender |-> AccAddressString(sender),
                        CodeID |-> m.Instantiate[1].CodeID,
                        Label |-> m.Instantiate[1].Label,
                        Msg |-> m.Instantiate[1].Msg,
                        Admin |-> m.Instantiate[1].Admin,
                        Funds |-> coins.coins]>>)
    ELSE IF m.Instantiate2 # Nil
    THEN LET coins == ConvertWasmCoinsToSdkCoins(m.Instantiate2[1].Funds)
         IN  IF coins.err # NoError THEN Fail(coins.err)
             ELSE Ok(<<[type |-> "MsgInstantiateContract2",
                        Sender |-> AccAddressString(sender),
                        Admin |-> m.Instantiate2[1].Admin,
                        CodeID |-> m.Instantiate2[1].CodeID,
                        Label |-> m.Instantiate2[1].Label,
                        Msg |-> m.Instantiate2[1].Msg,
                        Funds |-> coins.coins,
                        Salt |-> m.Instantiate2[1].Salt,
                        FixMsg |-> FALSE]>>)
    ELSE IF m.Migrate # Nil
    THEN Ok(<<[type |-> "MsgMigrateContract",
               Sender |-> AccAddressString(sender),
               Contract |-> m.Migrate[1].ContractAddr,
               CodeID |-> m.Migrate[1].NewCodeID,
               Msg |-> m.Migrate[1].Msg]>>)
    ELSE IF m.ClearAdmin # Nil
    THEN Ok(<<[type |-> "MsgClearAdmin",
               Sender |-> AccAddressString(sender),
               Contract |-> m.ClearAdmin[1].ContractAddr]>>)
    ELSE IF m.UpdateAdmin # Nil
    THEN Ok(<<[type |-> "MsgUpdateAdmin",
               Sender |-> AccAddressString(sender),
               Contract |-> m.UpdateAdmin[1].ContractAddr,
               NewAdmin |-> m.UpdateAdmin[1].Admin]>>)
    ELSE Fail(NewError("ErrUnknownMsg", "unknown variant of Wasm"))

(***************************************************************************)
(* EncodeIBCMsg(portSource) and ConvertWasmIBCTimeoutHeightToCosmosHeight. *)
(***************************************************************************)
ConvertWasmIBCTimeoutHeightToCosmosHeight(ibcTimeoutBlock) ==
    IF ibcTimeoutBlock = Nil
    THEN [RevisionNumber |-> 0, RevisionHeight |-> 0]
    ELSE [RevisionNumber |-> ibcTimeoutBlock[1].Revision,
          RevisionHeight |-> ibcTimeoutBlock[1].Height]

EncodeIBCMsgDropsFee(sender, contractIBCPortID, m) ==
    IF m.CloseChannel # Nil
    THEN Ok(<<[type |-> "MsgChannelCloseInit",
               PortId |-> PortIDForContract(sender),
               ChannelId |-> m.CloseChannel[1].ChannelID,
               Signer |-> AccAddressString(sender)]>>)
    ELSE IF m.Transfer # Nil
    THEN LET amount == ConvertWasmCoinToSdkCoin(m.Transfer[1].Amount)
         IN  IF amount.err # NoError THEN Fail(Wrap(amount.err, "amount"))
             ELSE Ok(<<[type |-> "MsgTransfer",
                        SourcePort |-> GetPort,
                        SourceChannel |-> m.Transfer[1].ChannelID,
                        Token |-> amount.coin,
                        Sender |-> AccAddressString(sender),
                        Receiver |-> m.Transfer[1].ToAddress,
                        TimeoutHeight |->
                            ConvertWasmIBCTimeoutHeightToCosmosHeight(m.Transfer[1].Timeout.Block),
                        TimeoutTimestamp |-> m.Transfer[1].Timeout.Timestamp,
                        Memo |-> m.Transfer[1].Memo]>>)
    ELSE IF m.PayPacketFee # Nil
    THEN Ok(<<>>)
    ELSE IF m.PayPacketFeeAsync # Nil
    THEN Ok(<<>>)
    ELSE Fail(NewError("ErrUnknownMsg", "unknown variant of IBC"))

EncodeIBCMsg(sender, contractIBCPortID, m) ==
    IF m.CloseChannel # Nil
    THEN Ok(<<[type |-> "MsgChannelCloseInit",
               PortId |-> PortIDForContract(sender),
               ChannelId |-> m.CloseChannel[1].ChannelID,
               Signer |-> AccAddressString(sender)]>>)
    ELSE IF m.Transfer # Nil
    THEN LET amount == ConvertWasmCoinToSdkCoin(m.Transfer[1].Amount)
         IN  IF amount.err # NoError THEN Fail(Wrap(amount.err, "amount"))
             ELSE Ok(<<[type |-> "MsgTransfer",
                        SourcePort |-> GetPort,
                        SourceChannel |-> m.Transfer[1].ChannelID,
                        Token |-> amount.coin,
                        Sender |-> AccAddressString(sender),
                        Receiver |-> m.Transfer[1].ToAddress,
                        TimeoutHeight |->
                            ConvertWasmIBCTimeoutHeightToCosmosHeight(m.Transfer[1].Timeout.Block),
                        TimeoutTimestamp |-> m.Transfer[1].Timeout.Timestamp,
                        Memo |-> m.Transfer[1].Memo]>>)
    ELSE IF m.PayPacketFee # Nil
    THEN Fail(NewError("ErrUnknownMsg", "pay packet fee not supported"))
    ELSE IF m.PayPacketFeeAsync # Nil
    THEN Fail(NewError("ErrUnknownMsg", "pay packet fee async not supported"))
    ELSE Fail(NewError("ErrUnknownMsg", "unknown variant of IBC"))

(***************************************************************************)
(* EncodeIBCv2Msg.  The timeout is a uint64 of nanoseconds; the widths and *)
(* the nanoseconds in a second are scaled down: TimeoutBits stands for 64  *)
(* and NanosPerSecond for 1e9.                                             *)
(***************************************************************************)
TimeoutBits == 8

NanosPerSecond == 10

RECURSIVE Pow2(_)
Pow2(n) == IF n = 0 THEN 1 ELSE 2 * Pow2(n - 1)

\* Go's int64(x) of a uint64: the same bits, read as two's complement.
ToSigned(x) == IF x >= Pow2(TimeoutBits - 1) THEN x - Pow2(TimeoutBits) ELSE x

\* Go's uint64(x) of an int64.
ToUnsigned(x) == x % Pow2(TimeoutBits)

\* Go's integer division truncates toward zero.
TruncDiv(a, b) == IF a >= 0 THEN a \div b ELSE 0 - ((0 - a) \div b)

\* time.Unix(0, nsec).Unix(): the seconds after nsec is brought into [0, 1e9).
UnixSeconds(nsec) ==
    LET n == TruncDiv(nsec, NanosPerSecond)
        rest == nsec - n * NanosPerSecond
    IN  IF rest < 0 THEN n - 1 ELSE n

TimeoutSeconds(timeout) == ToUnsigned(UnixSeconds(ToSigned(timeout)))

EncodePayload(payload) ==
    [SourcePort |-> payload.SourcePort,
     DestinationPort |-> payload.DestinationPort,
     Version |-> payload.Version,
     Encoding |-> payload.Encoding,
     Value |-> payload.Value]

EncodeIBCv2Msg(sender, m) ==
    IF m.SendPacket # Nil
    THEN Ok(<<[type |-> "MsgSendPacket",
               SourceClient |-> m.SendPacket[1].SourceClient,
               TimeoutTimestamp |-> TimeoutSeconds(m.SendPacket[1].Timeout),
               Payloads |-> [i \in 1..Len(m.SendPacket[1].Payloads) |->
                                EncodePayload(m.SendPacket[1].Payloads[i])],
               Signer |-> AccAddressString(sender)]>>)
    ELSE Fail(NewError("ErrUnknownMsg", "unknown variant of IBCv2"))

(***************************************************************************)
(* sdkmath.LegacyNewDecFromStr and LegacyDec.String.  A decimal is kept as *)
(* mant / 10^decs with no trailing zero decimal, which determines the      *)
(* 18-decimal text String prints.                                          *)
(***************************************************************************)
RECURSIVE DecNormal(_, _)
DecNormal(mant, decs) ==
    IF decs > 0 /\ mant % 10 = 0 THEN DecNormal(mant \div 10, decs - 1)
    ELSE [mant |-> mant, decs |-> decs]

NoDec == [mant |-> 0, decs |-> 0]

\* big.Int.SetString(s, 10): an optional sign, then decimal digits only.
SetStringBase10(s) ==
    IF s # <<>> /\ Head(s) = "-"
    THEN IF Tail(s) = <<>> THEN [ok |-> FALSE, value |-> 0]
         ELSE LET m == ScanDigits(Tail(s), 10, 0)
              IN  [ok |-> m.ok, value |-> 0 - m.value]
    ELSE IF s = <<>> THEN [ok |-> FALSE, value |-> 0]
    ELSE ScanDigits(s, 10, 0)

LegacyNewDecFromStr(str) ==
    LET neg == str # <<>> /\ Head(str) = "-"
        body == IF neg THEN Tail(str) ELSE str
        dots == {i \in 1..Len(body) : body[i] = "."}
        dot == IF dots = {} THEN Len(body) + 1 ELSE CHOOSE i \in dots : TRUE
        intStr == SubSeq(body, 1, dot - 1)
        fracStr == SubSeq(body, dot + 1, Len(body))
        lenDecs == Len(fracStr)
        combined == SetStringBase10(intStr \o fracStr)
        value == IF neg THEN 0 - combined.value ELSE combined.value
    IN  IF Len(body) = 0
        THEN [dec |-> NoDec, err |-> NewError("ErrLegacyEmptyDecimalStr", "")]
        ELSE IF Cardinality(dots) > 1
        THEN [dec |-> NoDec, err |-> NewError("ErrLegacyInvalidDecimalStr", "")]
        ELSE IF Cardinality(dots) = 1 /\ (lenDecs = 0 \/ Len(intStr) = 0)
        THEN [dec |-> NoDec, err |-> NewError("ErrLegacyInvalidDecimalLength", "")]
        ELSE IF lenDecs > 18
        THEN [dec |-> NoDec, err |-> NewError("exceeds max precision", "")]
        ELSE IF ~combined.ok
        THEN [dec |-> NoDec, err |-> NewError("failed to set decimal string", "")]
        ELSE [dec |-> DecNormal(value, lenDecs), err |-> NoError]

(***************************************************************************)
(* convertVoteOption and EncodeGovMsg.                                     *)
(***************************************************************************)
convertVoteOption(s) ==
    CASE s = "Yes" -> [option |-> "OptionYes", err |-> NoError]
      [] s = "No" -> [option |-> "OptionNo", err |-> NoError]
      [] s = "NoWithVeto" -> [option |-> "OptionNoWithVeto", err |-> NoError]
      [] s = "Abstain" -> [option |-> "OptionAbstain", err |-> NoError]
      [] OTHER -> [option |-> "OptionEmpty", err |-> NewError("ErrInvalid", "")]

\* The loop of the VoteWeighted case: i counts the options done (Go's index).
RECURSIVE WeightedOptionsZeroBased(_, _, _)
WeightedOptionsZeroBased(options, i, opts) ==
    IF i = Len(options) THEN [opts |-> opts, err |-> NoError]
    ELSE LET v == options[i + 1]
             weight == LegacyNewDecFromStr(v.Weight)
             voteOption == convertVoteOption(v.Option)
         IN  IF weight.err # NoError
             THEN [opts |-> <<>>, err |-> Wrapf(weight.err, "weight for vote", i)]
             ELSE IF voteOption.err # NoError
             THEN [opts |-> <<>>, err |-> Wrap(voteOption.err, "vote option")]
             ELSE WeightedOptionsZeroBased(options, i + 1,
                      Append(opts, [Option |-> voteOption.option, Weight |-> weight.dec]))

RECURSIVE WeightedOptions(_, _, _)
WeightedOptions(options, i, opts) ==
    IF i = Len(options) THEN [opts |-> opts, err |-> NoError]
    ELSE LET v == options[i + 1]
             weight == LegacyNewDecFromStr(v.Weight)
             voteOption == convertVoteOption(v.Option)
         IN  IF weight.err # NoError
             THEN [opts |-> <<>>, err |-> Wrapf(weight.err, "weight for vote", i + 1)]
             ELSE IF voteOption.err # NoError
             THEN [opts |-> <<>>, err |-> Wrap(voteOption.err, "vote option")]
             ELSE WeightedOptions(options, i + 1,
                      Append(opts, [Option |-> voteOption.option, Weight |-> weight.dec]))

EncodeGovMsg(sender, m) ==
    IF m.Vote # Nil
    THEN LET voteOption == convertVoteOption(m.Vote[1].Option)
         IN  IF voteOption.err # NoError THEN Fail(Wrap(voteOption.err, "vote option"))
             ELSE Ok(<<[type |-> "MsgVote",
                        ProposalId |-> m.Vote[1].ProposalId,
                        Voter |-> AccAddressString(sender),
                        Option |-> voteOption.option,
                        Metadata |-> ""]>>)
    ELSE IF m.VoteWeighted # Nil
    THEN LET weighted == WeightedOptions(m.VoteWeighted[1].Options, 0, <<>>)
         IN  IF weighted.err # NoError THEN Fail(weighted.err)
             ELSE Ok(<<[type |-> "MsgVoteWeighted",
                        ProposalId |-> m.VoteWeighted[1].ProposalId,
                        Voter |-> AccAddressString(sender),
                        Options |-> weighted.opts,
                        Metadata |-> ""]>>)
    ELSE Fail(NewError("ErrUnknownMsg", "unknown variant of gov"))

(***************************************************************************)
(* The registry: MessageEncoders, DefaultEncoders and Merge.  A slot holds *)
(* the name of the function stored in it, or NilFunc.                      *)
(***************************************************************************)
Kinds == <<"Bank", "Custom", "Distribution", "IBC", "IBC2", "Staking", "Any", "Wasm", "Gov">>

KindSet == {Kinds[i] : i \in 1..Len(Kinds)}

NilFunc == "nil"

DefaultEncoders ==
    [Bank |-> "EncodeBankMsg",
     Custom |-> "NoCustomMsg",
     Distribution |-> "EncodeDistributionMsg",
     IBC |-> "EncodeIBCMsg",
     IBC2 |-> "EncodeIBCv2Msg",
     Staking |-> "EncodeStakingMsg",
     Any |-> "EncodeAnyMsg",
     Wasm |-> "EncodeWasmMsg",
     Gov |-> "EncodeGovMsg"]

MergeSkipsStaking(e, o) ==
    IF o = Nil THEN e
    ELSE [Bank |-> IF o[1].Bank # NilFunc THEN o[1].Bank ELSE e.Bank,
          Custom |-> IF o[1].Custom # NilFunc THEN o[1].Custom ELSE e.Custom,
          Distribution |-> IF o[1].Distribution # NilFunc THEN o[1].Distribution
                           ELSE e.Distribution,
          IBC |-> IF o[1].IBC # NilFunc THEN o[1].IBC ELSE e.IBC,
          IBC2 |-> IF o[1].IBC2 # NilFunc THEN o[1].IBC2 ELSE e.IBC2,
          Staking |-> e.Staking,
          Any |-> IF o[1].Any # NilFunc THEN o[1].Any ELSE e.Any,
          Wasm |-> IF o[1].Wasm # NilFunc THEN o[1].Wasm ELSE e.Wasm,
          Gov |-> IF o[1].Gov # NilFunc THEN o[1].Gov ELSE e.Gov]

Merge(e, o) ==
    IF o = Nil THEN e
    ELSE [Bank |-> IF o[1].Bank # NilFunc THEN o[1].Bank ELSE e.Bank,
          Custom |-> IF o[1].Custom # NilFunc THEN o[1].Custom ELSE e.Custom,
          Distribution |-> IF o[1].Distribution # NilFunc THEN o[1].Distribution
                           ELSE e.Distribution,
          IBC |-> IF o[1].IBC # NilFunc THEN o[1].IBC ELSE e.IBC,
          IBC2 |-> IF o[1].IBC2 # NilFunc THEN o[1].IBC2 ELSE e.IBC2,
          Staking |-> IF o[1].Staking # NilFunc THEN o[1].Staking ELSE e.Staking,
          Any |-> IF o[1].Any # NilFunc THEN o[1].Any ELSE e.Any,
          Wasm |-> IF o[1].Wasm # NilFunc THEN o[1].Wasm ELSE e.Wasm,
          Gov |-> IF o[1].Gov # NilFunc THEN o[1].Gov ELSE e.Gov]

(***************************************************************************)
(* Calling the function a slot holds.  An encoder a chain plugs in is      *)
(* outside the file: PluginEncoder stands for one, returning one message   *)
(* that records which function built it and from what.                     *)
(***************************************************************************)
PluginEncoder(f, sender, payload) ==
    Ok(<<[type |-> "PluginMsg", Encoder |-> f,
          Sender |-> AccAddressString(sender), Payload |-> payload]>>)

Call(f, gas, sender, contractIBCPortID, payload) ==
    IF f = "EncodeAnyMsg" THEN EncodeAnyMsg(gas, sender, payload)
    ELSE AnyOutcome(
        CASE f = "EncodeBankMsg" -> EncodeBankMsg(sender, payload)
          [] f = "NoCustomMsg" -> NoCustomMsg(sender, payload)
          [] f = "EncodeDistributionMsg" -> EncodeDistributionMsg(sender, payload)
          [] f = "EncodeIBCMsg" -> EncodeIBCMsg(sender, contractIBCPortID, payload)
          [] f = "EncodeIBCv2Msg" -> EncodeIBCv2Msg(sender, payload)
          [] f = "EncodeStakingMsg" -> EncodeStakingMsg(sender, payload)
          [] f = "EncodeWasmMsg" -> EncodeWasmMsg(sender, payload)
          [] f = "EncodeGovMsg" -> EncodeGovMsg(sender, payload)
          [] OTHER -> PluginEncoder(f, sender, payload),
        gas, <<>>)

(***************************************************************************)
(* MessageEncoders.Encode.  invoked lists the functions it called.         *)
(***************************************************************************)
\* The switch with its first two cases exchanged.
SelectedCustomFirst(e, m) ==
    IF m.Custom # Nil THEN [f |-> e.Custom, payload |-> m.Custom]
    ELSE IF m.Bank # Nil THEN [f |-> e.Bank, payload |-> m.Bank]
    ELSE IF m.Distribution # Nil THEN [f |-> e.Distribution, payload |-> m.Distribution]
    ELSE IF m.IBC # Nil THEN [f |-> e.IBC, payload |-> m.IBC]
    ELSE IF m.IBC2 # Nil THEN [f |-> e.IBC2, payload |-> m.IBC2]
    ELSE IF m.Staking # Nil THEN [f |-> e.Staking, payload |-> m.Staking]
    ELSE IF m.Any # Nil THEN [f |-> e.Any, payload |-> m.Any]
    ELSE IF m.Wasm # Nil THEN [f |-> e.Wasm, payload |-> m.Wasm]
    ELSE IF m.Gov # Nil THEN [f |-> "EncodeGovMsg", payload |-> m.Gov]
    ELSE [f |-> NilFunc, payload |-> Nil]

\* The switch of Encode: the function it calls and the payload it hands over.
Selected(e, m) ==
    IF m.Bank # Nil THEN [f |-> e.Bank, payload |-> m.Bank]
    ELSE IF m.Custom # Nil THEN [f |-> e.Custom, payload |-> m.Custom]
    ELSE IF m.Distribution # Nil THEN [f |-> e.Distribution, payload |-> m.Distribution]
    ELSE IF m.IBC # Nil THEN [f |-> e.IBC, payload |-> m.IBC]
    ELSE IF m.IBC2 # Nil THEN [f |-> e.IBC2, payload |-> m.IBC2]
    ELSE IF m.Staking # Nil THEN [f |-> e.Staking, payload |-> m.Staking]
    ELSE IF m.Any # Nil THEN [f |-> e.Any, payload |-> m.Any]
    ELSE IF m.Wasm # Nil THEN [f |-> e.Wasm, payload |-> m.Wasm]
    ELSE IF m.Gov # Nil THEN [f |-> "EncodeGovMsg", payload |-> m.Gov]
    ELSE [f |-> NilFunc, payload |-> Nil]

\* Encode returning (nil, nil) when no variant is populated.
EncodeNoVariantIsNoOp(e, gas, contractAddr, contractIBCPortID, m) ==
    LET sel == Selected(e, m)
    IN  IF sel.payload = Nil
        THEN [res |-> Ok(<<>>), gas |-> gas, trace |-> <<>>, invoked |-> <<>>]
        ELSE [invoked |-> <<sel.f>>]
             @@ Call(sel.f, gas, contractAddr, contractIBCPortID, sel.payload[1])

Encode(e, gas, contractAddr, contractIBCPortID, m) ==
    LET sel == Selected(e, m)
    IN  IF sel.payload = Nil
        THEN [res |-> Fail(NewError("ErrUnknownMsg", "unknown variant of Wasm")),
              gas |-> gas, trace |-> <<>>, invoked |-> <<>>]
        ELSE [invoked |-> <<sel.f>>]
             @@ Call(sel.f, gas, contractAddr, contractIBCPortID, sel.payload[1])

(***************************************************************************)
(* Inputs.                                                                 *)
(***************************************************************************)
MaxOverrides == 2

MaxPopulated == 2

MaxFunds == 2

MaxVoteOptions == 2

MaxPayloads == 1

ContractAddr == "contract"

ContractIBCPortID == "wasm.contract"

\* Encoders a chain supplies: as overrides, and as a registry built by hand.
PluginEncoders == [k \in KindSet |-> "plugin." \o k]

ChainEncoders == [k \in KindSet |-> "chain." \o k]

BaseRegistries == {DefaultEncoders, ChainEncoders}

OverrideRecords ==
    {[k \in KindSet |-> IF k \in S THEN PluginEncoders[k] ELSE NilFunc] :
        S \in {T \in SUBSET KindSet : Cardinality(T) <= MaxOverrides}}

InitialGas == {0, GasLimit - (anyMsgGasCost \div DefaultGasMultiplier), GasLimit}

EmptyMsg == [k \in KindSet |-> Nil]

OneOf(kind, payload) == [EmptyMsg EXCEPT ![kind] = Ptr(payload)]

FundsLists == SeqsUpTo(WasmCoins, MaxFunds)

NoBankMsg == [Send |-> Nil]

BankMsgs ==
    {NoBankMsg} \cup
    {[Send |-> Ptr([ToAddress |-> "recipient", Amount |-> a])] : a \in FundsLists}

NoDistributionMsg ==
    [SetWithdrawAddress |-> Nil, WithdrawDelegatorReward |-> Nil, FundCommunityPool |-> Nil]

DistributionMsgs ==
    {NoDistributionMsg,
     [NoDistributionMsg EXCEPT !.SetWithdrawAddress = Ptr([Address |-> "withdraw"])],
     [NoDistributionMsg EXCEPT !.WithdrawDelegatorReward = Ptr([Validator |-> "validator"])]}
    \cup
    {[NoDistributionMsg EXCEPT !.FundCommunityPool = Ptr([Amount |-> a])] : a \in FundsLists}

NoStakingMsg == [Delegate |-> Nil, Redelegate |-> Nil, Undelegate |-> Nil]

StakingMsgs ==
    {NoStakingMsg}
    \cup {[NoStakingMsg EXCEPT !.Delegate = Ptr([Validator |-> "validator", Amount |-> c])] :
            c \in WasmCoins}
    \cup {[NoStakingMsg EXCEPT !.Redelegate =
                Ptr([SrcValidator |-> "validator", DstValidator |-> "validator2", Amount |-> c])] :
            c \in WasmCoins}
    \cup {[NoStakingMsg EXCEPT !.Undelegate = Ptr([Validator |-> "validator", Amount |-> c])] :
            c \in WasmCoins}

AnyMsgs ==
    {[TypeURL |-> t, Value |-> "bytes"] :
        t \in {"/cosmos.bank.v1beta1.MsgSend", "/cosmos.authz.v1beta1.MsgExec", "/not.registered"}}

NoWasmMsg ==
    [Execute |-> Nil, Instantiate |-> Nil, Instantiate2 |-> Nil,
     Migrate |-> Nil, ClearAdmin |-> Nil, UpdateAdmin |-> Nil]

WasmMsgs ==
    {NoWasmMsg,
     [NoWasmMsg EXCEPT !.Migrate = Ptr([ContractAddr |-> "other", NewCodeID |-> 2, Msg |-> "{}"])],
     [NoWasmMsg EXCEPT !.ClearAdmin = Ptr([ContractAddr |-> "other"])],
     [NoWasmMsg EXCEPT !.UpdateAdmin = Ptr([ContractAddr |-> "other", Admin |-> "admin"])]}
    \cup {[NoWasmMsg EXCEPT !.Execute =
                Ptr([ContractAddr |-> "other", Msg |-> "{}", Funds |-> a])] : a \in FundsLists}
    \cup {[NoWasmMsg EXCEPT !.Instantiate =
                Ptr([CodeID |-> 1, Label |-> "label", Msg |-> "{}", Admin |-> "admin",
                     Funds |-> a])] : a \in FundsLists}
    \cup {[NoWasmMsg EXCEPT !.Instantiate2 =
                Ptr([CodeID |-> 1, Label |-> "label", Msg |-> "{}", Admin |-> "admin",
                     Funds |-> a, Salt |-> "salt"])] : a \in FundsLists}

NoIBCMsg ==
    [CloseChannel |-> Nil, Transfer |-> Nil, PayPacketFee |-> Nil, PayPacketFeeAsync |-> Nil]

TimeoutBlocks == {Nil, Ptr([Revision |-> 1, Height |-> 7])}

IBCMsgs ==
    {NoIBCMsg,
     [NoIBCMsg EXCEPT !.CloseChannel = Ptr([ChannelID |-> "channel-0"])],
     [NoIBCMsg EXCEPT !.PayPacketFee = Ptr([PortID |-> "port", ChannelID |-> "channel-0"])],
     [NoIBCMsg EXCEPT !.PayPacketFeeAsync = Ptr([PortID |-> "port", ChannelID |-> "channel-0"])]}
    \cup {[NoIBCMsg EXCEPT !.Transfer =
                Ptr([ChannelID |-> "channel-0", ToAddress |-> "recipient", Amount |-> c,
                     Timeout |-> [Block |-> b, Timestamp |-> 15], Memo |-> "memo"])] :
            c \in WasmCoins, b \in TimeoutBlocks}

NoIBC2Msg == [SendPacket |-> Nil]

PayloadSamples ==
    {[SourcePort |-> "src", DestinationPort |-> "dst", Version |-> "v1",
      Encoding |-> "json", Value |-> "bytes"]}

IBC2Msgs ==
    {NoIBC2Msg}
    \cup {[SendPacket |-> Ptr([SourceClient |-> "client-0", Payloads |-> ps, Timeout |-> t])] :
            ps \in SeqsUpTo(PayloadSamples, MaxPayloads), t \in 0..(Pow2(TimeoutBits) - 1)}

NoGovMsg == [Vote |-> Nil, VoteWeighted |-> Nil]

VoteOptions == {"Yes", "No", "NoWithVeto", "Abstain", "Unset"}

WeightSamples == {<<"0", ".", "7">>, <<"1">>, <<>>, <<"1", ".">>, <<"a">>}

WeightedOptionSamples == [Option : VoteOptions, Weight : WeightSamples]

GovMsgs ==
    {NoGovMsg}
    \cup {[NoGovMsg EXCEPT !.Vote = Ptr([ProposalId |-> 7, Option |-> o])] : o \in VoteOptions}
    \cup {[NoGovMsg EXCEPT !.VoteWeighted = Ptr([ProposalId |-> 7, Options |-> os])] :
            os \in SeqsUpTo(WeightedOptionSamples, MaxVoteOptions)}

\* Messages with exactly one variant populated, over all the payloads above.
EncoderMsgs ==
    {OneOf("Bank", p) : p \in BankMsgs}
    \cup {OneOf("Custom", "{}")}
    \cup {OneOf("Distribution", p) : p \in DistributionMsgs}
    \cup {OneOf("IBC", p) : p \in IBCMsgs}
    \cup {OneOf("IBC2", p) : p \in IBC2Msgs}
    \cup {OneOf("Staking", p) : p \in StakingMsgs}
    \cup {OneOf("Any", p) : p \in AnyMsgs}
    \cup {OneOf("Wasm", p) : p \in WasmMsgs}
    \cup {OneOf("Gov", p) : p \in GovMsgs}

\* Messages with up to MaxPopulated variants populated, over a few payloads.
PayloadChoices ==
    [Bank : {[Send |-> Ptr([ToAddress |-> "recipient",
                            Amount |-> <<[Denom |-> <<"f", "o", "o">>, Amount |-> <<"1">>]>>])]},
     Custom : {"{}"},
     Distribution : {[NoDistributionMsg EXCEPT
                        !.SetWithdrawAddress = Ptr([Address |-> "withdraw"])]},
     IBC : {[NoIBCMsg EXCEPT !.CloseChannel = Ptr([ChannelID |-> "channel-0"])]},
     IBC2 : {NoIBC2Msg},
     Staking : {[NoStakingMsg EXCEPT !.Undelegate =
                    Ptr([Validator |-> "validator",
                         Amount |-> [Denom |-> <<"f", "o", "o">>, Amount |-> <<"1">>]])]},
     Any : AnyMsgs,
     Wasm : {[NoWasmMsg EXCEPT !.ClearAdmin = Ptr([ContractAddr |-> "other"])]},
     Gov : {[NoGovMsg EXCEPT !.Vote = Ptr([ProposalId |-> 7, Option |-> "Yes"])],
            [NoGovMsg EXCEPT !.Vote = Ptr([ProposalId |-> 7, Option |-> "Unset"])]}]

DispatchMsgs ==
    {[k \in KindSet |-> IF k \in S THEN Ptr(c[k]) ELSE Nil] :
        S \in {T \in SUBSET KindSet : Cardinality(T) <= MaxPopulated},
        c \in PayloadChoices}

Populated(m) == {k \in KindSet : m[k] # Nil}

(***************************************************************************)
(* The state machine.  A behaviour builds a registry, may merge overrides  *)
(* into it once, and makes one call.                                       *)
(***************************************************************************)
NoResult == [msgs |-> <<>>, err |-> NoError]

Init ==
    /\ op = "init"
    /\ encoders \in BaseRegistries
    /\ base = encoders
    /\ overrides = Nil
    /\ msg = EmptyMsg
    /\ result = NoResult
    /\ invoked = <<>>
    /\ trace = <<>>
    /\ gasStart \in InitialGas
    /\ gasConsumed = gasStart
    /\ coinsArg = <<>>
    /\ coinsRes = NoCoinsResult

InitDefault == Init /\ encoders = DefaultEncoders

MergeAct ==
    /\ op = "init"
    /\ \E o \in Opt(OverrideRecords) :
        /\ overrides' = o
        /\ encoders' = Merge(encoders, o)
    /\ base' = encoders
    /\ op' = "Merge"
    /\ UNCHANGED <<msg, result, invoked, trace, gasStart, gasConsumed, coinsArg, coinsRes>>

EncodeCall(m) ==
    /\ op \in {"init", "Merge"}
    /\ \E out \in {Encode(encoders, gasConsumed, ContractAddr, ContractIBCPortID, m)} :
           /\ result' = out.res
           /\ invoked' = out.invoked
           /\ trace' = out.trace
           /\ gasConsumed' = out.gas
    /\ msg' = m
    /\ op' = "Encode"
    /\ UNCHANGED <<base, overrides, encoders, gasStart, coinsArg, coinsRes>>

EncodeAct == \E m \in DispatchMsgs : EncodeCall(m)

EncodeDefaultAct == \E m \in EncoderMsgs : EncodeCall(m)

ConvertCoinsAct ==
    /\ op = "init"
    /\ \E cs \in SeqsUpTo(WasmCoins, MaxCoins) :
        /\ coinsArg' = cs
        /\ coinsRes' = ConvertWasmCoinsToSdkCoins(cs)
    /\ op' = "ConvertWasmCoinsToSdkCoins"
    /\ UNCHANGED <<base, overrides, encoders, msg, result, invoked, trace, gasStart, gasConsumed>>

ConvertCoinAct ==
    /\ op = "init"
    /\ \E c \in WasmCoins :
        /\ coinsArg' = <<c>>
        /\ coinsRes' = LET r == ConvertWasmCoinToSdkCoin(c)
                       IN  [coins |-> <<r.coin>>, err |-> r.err]
    /\ op' = "ConvertWasmCoinToSdkCoin"
    /\ UNCHANGED <<base, overrides, encoders, msg, result, invoked, trace, gasStart, gasConsumed>>

Next == MergeAct \/ EncodeAct

Spec == Init /\ [][Next]_vars

NextEncoders == EncodeDefaultAct

SpecEncoders == InitDefault /\ [][NextEncoders]_vars

NextCoins == ConvertCoinsAct \/ ConvertCoinAct

SpecCoins == InitDefault /\ [][NextCoins]_vars

(***************************************************************************)
(* Properties.                                                             *)
(***************************************************************************)
TheKind(m) == CHOOSE k \in Populated(m) : TRUE

OneVariant == op = "Encode" /\ Cardinality(Populated(msg)) = 1

\* C1: for every registry and every message with exactly one populated
\* variant of kind k, Encode calls the encoder stored in the registry's slot
\* for k and returns exactly what that encoder returns for the payload; an
\* override that Merge installed for k is the encoder Encode calls.
C1_EncodeCallsTheSlot ==
    OneVariant =>
        LET k == TheKind(msg)
        IN  /\ invoked = <<encoders[k]>>
            /\ result = Call(encoders[k], gasStart, ContractAddr, ContractIBCPortID,
                              msg[k][1]).res

\* C2: every call of the Any encoder charges anyMsgGasCost /
\* DefaultGasMultiplier on the gas meter exactly once, as the first thing
\* it does, so before any UnpackAny; on decode failure, on nested-interface
\* failure and on success alike.
AnyGas == anyMsgGasCost \div DefaultGasMultiplier

Occurrences(events, e) == Cardinality({i \in 1..Len(events) : events[i] = e})

AnyEncoderCalled == op = "Encode" /\ invoked = <<"EncodeAnyMsg">>

C2_GasChargedOnceBeforeDecode ==
    AnyEncoderCalled =>
        /\ Occurrences(trace, "ConsumeGas") = 1
        /\ trace[1] = "ConsumeGas"
        /\ gasConsumed = gasStart + AnyGas
        /\ result.err.kind # "panic" =>
                /\ Occurrences(trace, "UnpackAny") = 1
                /\ trace[2] = "UnpackAny"
        /\ result.err = NoError => Len(result.msgs) = 1

C2_DecodeFailureCharged ==
    /\ AnyEncoderCalled
    /\ result.err.kind = "ErrInvalidMsg"
    /\ trace = <<"ConsumeGas", "UnpackAny">>
    /\ gasConsumed = gasStart + AnyGas

\* C3: Merge(base, overrides) returns a registry whose slot for each kind
\* is the override's encoder when the override has one and base's encoder
\* otherwise; with a nil or all-empty override record it returns base; and
\* the receiver the caller holds is as it was before the call.
MergedSlot(b, o, k) == IF o # Nil /\ o[1][k] # NilFunc THEN o[1][k] ELSE b[k]

AllEmpty(o) == o = Nil \/ \A k \in KindSet : o[1][k] = NilFunc

C3_MergeReplacesExactlyTheOverridden ==
    [][op' = "Merge" =>
        /\ base' = encoders
        /\ \A k \in KindSet : encoders'[k] = MergedSlot(encoders, overrides', k)
        /\ AllEmpty(overrides') => encoders' = encoders]_vars

C3_SomeSlotsOverridden ==
    /\ op = "Merge"
    /\ overrides # Nil
    /\ \E k \in KindSet : overrides[1][k] # NilFunc /\ encoders[k] = overrides[1][k]
    /\ \E k \in KindSet : overrides[1][k] = NilFunc /\ encoders[k] = base[k]
    /\ base = ChainEncoders

(***************************************************************************)
(* How the coin claims read an amount text, apart from the parser.         *)
(***************************************************************************)
AllDigits(s) == s # <<>> /\ \A i \in 1..Len(s) : IsDigit(s[i])

\* A decimal numeral: digits, with no leading zero before further digits.
IsNonNegNumeral(s) == AllDigits(s) /\ (Len(s) = 1 \/ s[1] # "0")

RECURSIVE DecimalValue(_)
DecimalValue(s) ==
    IF s = <<>> THEN 0
    ELSE 10 * DecimalValue(SubSeq(s, 1, Len(s) - 1)) + DigitVal(s[Len(s)])

IsNegativeNumeral(s) ==
    Len(s) >= 2 /\ s[1] = "-" /\ IsNonNegNumeral(Tail(s)) /\ DecimalValue(Tail(s)) > 0

IsNonNumeric(s) ==
    /\ s # <<>>
    /\ ~AllDigits(s)
    /\ ~(s[1] = "-" /\ AllDigits(Tail(s)))

IsMalformed(s) == s = <<>> \/ IsNonNumeric(s) \/ IsNegativeNumeral(s)

IsValidCoin(c) == IsNonNegNumeral(c.Amount) /\ ValidateDenom(c.Denom) = NoError

RECURSIVE InputSum(_, _)
InputSum(coins, denom) ==
    IF coins = <<>> THEN 0
    ELSE (IF Head(coins).Denom = denom THEN DecimalValue(Head(coins).Amount) ELSE 0)
         + InputSum(Tail(coins), denom)

CountDenom(coins, denom) == Cardinality({j \in 1..Len(coins) : coins[j].Denom = denom})

ValidCoinsConverted ==
    /\ op = "ConvertWasmCoinsToSdkCoins"
    /\ \A i \in 1..Len(coinsArg) : IsValidCoin(coinsArg[i])

SortedSummed(out) ==
    /\ \A j \in 1..(Len(out) - 1) : StrLess(out[j].Denom, out[j + 1].Denom)
    /\ \A j \in 1..Len(out) : out[j].Amount = InputSum(coinsArg, out[j].Denom)
    /\ \A j \in 1..Len(out) : CountDenom(coinsArg, out[j].Denom) > 0

\* C4 as stated: for every list of coins with non-negative integer amounts
\* and valid denominations (duplicates and zero amounts allowed) the
\* conversion succeeds, every input denomination appears exactly once in the
\* result, denominations strictly ascend, each amount is the sum of the input
\* amounts of its denomination, and an empty input gives an empty result.
C4_EveryDenomOnceSortedSummed ==
    ValidCoinsConverted =>
        /\ coinsRes.err = NoError
        /\ \A i \in 1..Len(coinsArg) : CountDenom(coinsRes.coins, coinsArg[i].Denom) = 1
        /\ SortedSummed(coinsRes.coins)
        /\ coinsArg = <<>> => coinsRes.coins = <<>>

\* C4 as amended: as above, but an input denomination appears exactly once
\* when its amounts sum to more than zero and not at all when they sum to
\* zero.
C4_PositiveDenomsOnceSortedSummed ==
    ValidCoinsConverted =>
        /\ coinsRes.err = NoError
        /\ \A i \in 1..Len(coinsArg) :
              CountDenom(coinsRes.coins, coinsArg[i].Denom)
                = (IF InputSum(coinsArg, coinsArg[i].Denom) > 0 THEN 1 ELSE 0)
        /\ SortedSummed(coinsRes.coins)
        /\ coinsArg = <<>> => coinsRes.coins = <<>>

C4_DuplicateZeroAndReordered ==
    /\ ValidCoinsConverted
    /\ Len(coinsArg) = 3
    /\ coinsArg[1].Denom = coinsArg[3].Denom
    /\ coinsArg[3].Amount = <<"0">>
    /\ Len(coinsRes.coins) = 2
    /\ coinsRes.coins[1].Denom = coinsArg[2].Denom
    /\ coinsRes.coins[2].Amount = 2

\* The first coin with a malformed amount, when only valid coins precede it.
FirstMalformed(coins) ==
    {i \in 1..Len(coins) :
        /\ IsMalformed(coins[i].Amount)
        /\ \A j \in 1..(i - 1) : IsValidCoin(coins[j])}

\* C5 as stated: a coin whose amount is non-numeric, negative or empty makes
\* ConvertWasmCoinToSdkCoin, and ConvertWasmCoinsToSdkCoins for a list that
\* has it after any number of valid coins, fail with ErrInvalidCoins in all
\* three cases, and the list form returns no coins.  (Read in the claim's
\* favour: the coin's denomination is valid.)
C5_MalformedAmountIsErrInvalidCoins ==
    /\ (/\ op = "ConvertWasmCoinToSdkCoin"
        /\ IsMalformed(coinsArg[1].Amount)
        /\ ValidateDenom(coinsArg[1].Denom) = NoError)
            => coinsRes.err.kind = "ErrInvalidCoins"
    /\ (/\ op = "ConvertWasmCoinsToSdkCoins"
        /\ \E i \in FirstMalformed(coinsArg) : ValidateDenom(coinsArg[i].Denom) = NoError)
            => coinsRes.err.kind = "ErrInvalidCoins" /\ coinsRes.coins = <<>>

\* The error the conversion gives for a coin with a malformed amount.
MalformedErrorKind(c) ==
    IF ~IsNegativeNumeral(c.Amount) THEN "ErrInvalidCoins"
    ELSE IF ValidateDenom(c.Denom) # NoError THEN "invalid denom"
    ELSE "negative coin amount"

\* C5 as amended: such a coin makes both conversions fail, and the list form
\* returns no coins; the error is ErrInvalidCoins for an empty or non-numeric
\* amount, and for a negative amount it is Coin.Validate's error (negative
\* amount, or invalid denomination when the denomination is invalid too).
C5_MalformedAmountFails ==
    /\ (op = "ConvertWasmCoinToSdkCoin" /\ IsMalformed(coinsArg[1].Amount))
            => coinsRes.err.kind = MalformedErrorKind(coinsArg[1])
    /\ (op = "ConvertWasmCoinsToSdkCoins" /\ FirstMalformed(coinsArg) # {})
            => /\ \A i \in FirstMalformed(coinsArg) :
                    coinsRes.err.kind = MalformedErrorKind(coinsArg[i])
               /\ coinsRes.err # NoError
               /\ coinsRes.coins = <<>>

C5_NegativeAfterTwoValidCoins ==
    /\ op = "ConvertWasmCoinsToSdkCoins"
    /\ FirstMalformed(coinsArg) = {3}
    /\ IsNegativeNumeral(coinsArg[3].Amount)
    /\ coinsArg[1].Amount = <<"1">>
    /\ coinsRes.err.kind = "negative coin amount"
    /\ coinsRes.coins = <<>>

(***************************************************************************)
(* Properties of the default encoders.                                     *)
(***************************************************************************)
FeeAttachment ==
    /\ OneVariant
    /\ msg.IBC # Nil
    /\ msg.IBC[1].CloseChannel = Nil
    /\ msg.IBC[1].Transfer = Nil
    /\ msg.IBC[1].PayPacketFee # Nil \/ msg.IBC[1].PayPacketFeeAsync # Nil

\* What the IBC encoder returns for a message with no sub-kind it knows.
UnmatchedIBCError == EncodeIBCMsg(ContractAddr, ContractIBCPortID, NoIBCMsg).err

\* C6 as stated: an IBC message whose sub-kind is PayPacketFee or
\* PayPacketFeeAsync is rejected, with no host message, with an error kind
\* of its own, distinct from the kind returned for an unmatched sub-kind.
C6_FeeAttachmentHasItsOwnErrorKind ==
    FeeAttachment =>
        /\ result.msgs = <<>>
        /\ result.err # NoError
        /\ result.err.kind # UnmatchedIBCError.kind

\* C6 as amended: such a message is rejected, with no host message, with
\* ErrUnknownMsg, the kind an unmatched sub-kind gets too; only the
\* description ("pay packet fee [async] not supported") tells them apart.
C6_FeeAttachmentRejectedAsUnknownMsg ==
    FeeAttachment =>
        /\ result.msgs = <<>>
        /\ result.err.kind = "ErrUnknownMsg"
        /\ result.err.kind = UnmatchedIBCError.kind
        /\ result.err.wrap =
              (IF msg.IBC[1].PayPacketFee # Nil
               THEN <<"pay packet fee not supported">>
               ELSE <<"pay packet fee async not supported">>)
        /\ result.err.wrap # UnmatchedIBCError.wrap

C6_AsyncFeeRejected ==
    /\ FeeAttachment
    /\ msg.IBC[1].PayPacketFeeAsync # Nil
    /\ result.err.kind = "ErrUnknownMsg"
    /\ result.msgs = <<>>

\* C7: Encode with the default encoders returns either messages and no
\* error or an error and no messages, never both, also when the failure
\* comes after earlier elements of a list were converted.
C7_NoPartialResult ==
    op = "Encode" => (result.msgs = <<>> \/ result.err = NoError)

C7_FailureAfterConvertedCoin ==
    /\ OneVariant
    /\ msg.Distribution # Nil
    /\ msg.Distribution[1].FundCommunityPool # Nil
    /\ Len(msg.Distribution[1].FundCommunityPool[1].Amount) = 2
    /\ IsValidCoin(msg.Distribution[1].FundCommunityPool[1].Amount[1])
    /\ result.err # NoError
    /\ result.msgs = <<>>

\* A weight text that is a decimal: digits, or digits "." digits, with an
\* optional leading "-".
IsDecimalText(w) ==
    LET body == IF w # <<>> /\ Head(w) = "-" THEN Tail(w) ELSE w
        dots == {i \in 1..Len(body) : body[i] = "."}
    IN  /\ body # <<>>
        /\ Cardinality(dots) <= 1
        /\ \A i \in 1..Len(body) : i \notin dots => IsDigit(body[i])
        /\ \A i \in dots : i > 1 /\ i < Len(body)

IsVoteOption(o) == o \in {"Yes", "No", "NoWithVeto", "Abstain"}

WeightedVote ==
    /\ OneVariant
    /\ msg.Gov # Nil
    /\ msg.Gov[1].Vote = Nil
    /\ msg.Gov[1].VoteWeighted # Nil

\* The positions whose weight is malformed while every option before them
\* has a well-formed weight and a valid vote option.
FirstBadWeight(options) ==
    {i \in 1..Len(options) :
        /\ ~IsDecimalText(options[i].Weight)
        /\ \A j \in 1..(i - 1) :
              IsDecimalText(options[j].Weight) /\ IsVoteOption(options[j].Option)}

\* C8: a weighted vote whose first malformed weight is at position i
\* (from 1), after options that are all well formed, fails with the weight
\* error naming index i and returns no message; when every weight and
\* option is valid the encoder returns exactly one weighted-vote message
\* with one option per input, in input order, and empty metadata.
C8_WeightErrorNamesIndexFromOne ==
    WeightedVote =>
        LET options == msg.Gov[1].VoteWeighted[1].Options
        IN  /\ \A i \in FirstBadWeight(options) :
                  /\ result.msgs = <<>>
                  /\ result.err # NoError
                  /\ result.err.wrap[Len(result.err.wrap)] = "weight for vote"
                  /\ result.err.index = i
            /\ (\A i \in 1..Len(options) :
                    IsDecimalText(options[i].Weight) /\ IsVoteOption(options[i].Option))
                => /\ result.err = NoError
                   /\ Len(result.msgs) = 1
                   /\ result.msgs[1].type = "MsgVoteWeighted"
                   /\ result.msgs[1].Metadata = ""
                   /\ Len(result.msgs[1].Options) = Len(options)
                   /\ \A i \in 1..Len(options) :
                         result.msgs[1].Options[i].Option = "Option" \o options[i].Option

C8_SecondWeightMalformed ==
    /\ WeightedVote
    /\ FirstBadWeight(msg.Gov[1].VoteWeighted[1].Options) = {2}
    /\ result.err.index = 2
    /\ result.msgs = <<>>

\* C9: for every send-packet timeout t, an unsigned nanosecond count of
\* TimeoutBits bits, the host message's TimeoutTimestamp is t divided by
\* the nanoseconds in a second, rounded down, also for t above the largest
\* signed value.
C9_TimeoutIsWholeSeconds ==
    (OneVariant /\ msg.IBC2 # Nil /\ msg.IBC2[1].SendPacket # Nil) =>
        /\ result.err = NoError
        /\ Len(result.msgs) = 1
        /\ result.msgs[1].TimeoutTimestamp
              = msg.IBC2[1].SendPacket[1].Timeout \div NanosPerSecond

\* C10: a Bank Send with an empty amount list returns no message and no
\* error; with a non-empty list that converts, exactly one MsgSend from the
\* sender to the destination carrying the converted coins; with a list that
\* does not convert, that error and no message.
C10_BankSend ==
    (OneVariant /\ msg.Bank # Nil /\ msg.Bank[1].Send # Nil) =>
        LET send == msg.Bank[1].Send[1]
            toSend == ConvertWasmCoinsToSdkCoins(send.Amount)
        IN  IF Len(send.Amount) = 0 THEN result = [msgs |-> <<>>, err |-> NoError]
            ELSE IF toSend.err = NoError
            THEN /\ result.err = NoError
                 /\ result.msgs = <<[type |-> "MsgSend",
                                     FromAddress |-> AccAddressString(ContractAddr),
                                     ToAddress |-> send.ToAddress,
                                     Amount |-> toSend.coins]>>
            ELSE result = [msgs |-> <<>>, err |-> toSend.err]

C10_EmptySendIsNoOp ==
    /\ OneVariant
    /\ msg.Bank # Nil
    /\ msg.Bank[1].Send # Nil
    /\ msg.Bank[1].Send[1].Amount = <<>>
    /\ result = [msgs |-> <<>>, err |-> NoError]
    /\ invoked = <<"EncodeBankMsg">>

(***************************************************************************)
(* Properties of the dispatcher for messages that do not have exactly one  *)
(* variant populated.                                                      *)
(***************************************************************************)
\* C11: Encode on a message with no variant populated fails with
\* ErrUnknownMsg, returns no message, calls no encoder of the registry and
\* leaves the gas meter and the other collaborators untouched.
C11_NoVariantIsUnknownMsg ==
    (op = "Encode" /\ Populated(msg) = {}) =>
        /\ result.err.kind = "ErrUnknownMsg"
        /\ result.err.wrap = <<"unknown variant of Wasm">>
        /\ result.msgs = <<>>
        /\ invoked = <<>>
        /\ trace = <<>>
        /\ gasConsumed = gasStart

C11_EmptyMsgAfterMerge ==
    /\ op = "Encode"
    /\ msg = EmptyMsg
    /\ overrides # Nil
    /\ encoders # base
    /\ gasStart > 0
    /\ result.err.kind = "ErrUnknownMsg"
    /\ invoked = <<>>

\* The first populated variant in the order Bank, Custom, Distribution, IBC,
\* IBC2, Staking, Any, Wasm, Gov.
FirstPopulated(m) ==
    Kinds[CHOOSE i \in 1..Len(Kinds) :
            /\ m[Kinds[i]] # Nil
            /\ \A j \in 1..(i - 1) : m[Kinds[j]] = Nil]

ManyVariants == op = "Encode" /\ Cardinality(Populated(msg)) > 1

\* C12: for a message with more than one variant populated Encode calls
\* exactly one encoder, the registry's encoder for the first populated
\* variant in the order above, and returns that encoder's result, not an
\* error of its own; the other variants cost no gas: the gas meter and the
\* collaborator calls are those of that one encoder alone.
C12_FirstPopulatedVariantWins ==
    ManyVariants =>
        LET k == FirstPopulated(msg)
            alone == Call(encoders[k], gasStart, ContractAddr, ContractIBCPortID, msg[k][1])
        IN  /\ invoked = <<encoders[k]>>
            /\ result = alone.res
            /\ gasConsumed = alone.gas
            /\ trace = alone.trace
            /\ k # "Any" => gasConsumed = gasStart
            /\ result.err.wrap # <<"unknown variant of Wasm">>

C12_AnyIgnoredBehindBank ==
    /\ ManyVariants
    /\ Populated(msg) = {"Bank", "Any"}
    /\ encoders.Any = "EncodeAnyMsg"
    /\ invoked = <<encoders.Bank>>
    /\ result.err = NoError
    /\ Len(result.msgs) = 1
    /\ gasConsumed = gasStart

====
